---- MODULE Spec2Model ----
(***************************************************************************)
(* Model of notebooks/youtubecustom.py: three functions that query the     *)
(* YouTube Data API through a client object and reshape the JSON response  *)
(* into a pandas DataFrame.                                                *)
(*                                                                         *)
(* A DataFrame is [cols |-> set of column names, rows |-> sequence of      *)
(* functions cols -> cell].  A cell is [isList, v]: a scalar holds a       *)
(* non-empty sequence of strings, NaN the empty one, a Python list the     *)
(* sequence of its elements.  The client is the environment: each of its   *)
(* calls either returns or raises, chosen nondeterministically.            *)
(***************************************************************************)
EXTENDS Integers, Sequences, FiniteSets, TLC

VARIABLES pc, fn, args, calls, response, result, stdout

vars == <<pc, fn, args, calls, response, result, stdout>>

(* ------------------------------ bounds -------------------------------- *)

MaxItems == 2

MaxReplies == 3

(* ------------------------------ inputs -------------------------------- *)

None == "None"

default_max_results == 50

RegionCodes == {"GB", "BR"}

VideoCategoryIds == {None, "10"}

MaxResultsValues == {default_max_results, 1}

VideoIds == {"dQw4w9WgXcQ", "9bZkp7q19f0"}

PageTokens == {"QURTSl8x", "QURTSl8y"}

\* Exception classes the client can raise; every one is a subclass of Exception.
HttpError == "HttpError"

KeyError == "KeyError"

ClientExceptions == {HttpError, "TypeError", "OSError"}

(* ------------------------------ cells --------------------------------- *)

Scalar(s) == [isList |-> FALSE, v |-> s]

NaN == [isList |-> FALSE, v |-> << >>]

PyList(n) == [isList |-> TRUE, v |-> [k \in 1..n |-> "reply"]]

(* ---------------------------- DataFrames ------------------------------ *)

\* pd.DataFrame(): no columns, no rows.
EmptyDataFrame == [cols |-> {}, rows |-> << >>]

\* pd.json_normalize(items): one row per item, one column per flattened key that
\* occurs in any item, NaN where an item lacks the key.
json_normalize(items) ==
    LET cols == UNION {DOMAIN items[i] : i \in DOMAIN items}
    IN  [cols |-> cols,
         rows |-> [i \in DOMAIN items |->
                     [c \in cols |-> IF c \in DOMAIN items[i] THEN items[i][c] ELSE NaN]]]

\* df.drop(columns=labels) raises KeyError unless every label is a column.
CanDrop(df, labels) == labels \subseteq df.cols

drop(df, labels) ==
    [cols |-> df.cols \ labels,
     rows |-> [i \in DOMAIN df.rows |-> [c \in df.cols \ labels |-> df.rows[i][c]]]]

\* df[labels] raises KeyError unless every label is a column.
CanSelect(df, labels) == labels \subseteq df.cols

select(df, labels) ==
    [cols |-> labels,
     rows |-> [i \in DOMAIN df.rows |-> [c \in labels |-> df.rows[i][c]]]]

NewName(mapper, c) == IF c \in DOMAIN mapper THEN mapper[c] ELSE c

\* df.rename(columns=mapper): labels the mapper does not name are kept, labels of
\* the mapper that are no column are ignored.
rename(df, mapper) ==
    LET newcols == {NewName(mapper, c) : c \in df.cols}
        Old(n) == CHOOSE c \in df.cols : NewName(mapper, c) = n
    IN  [cols |-> newcols,
         rows |-> [i \in DOMAIN df.rows |-> [n \in newcols |-> df.rows[i][Old(n)]]]]

\* df[col] = value / df.assign(col=value) with a scalar: the column on every row.
assign(df, col, value) ==
    [cols |-> df.cols \cup {col},
     rows |-> [i \in DOMAIN df.rows |->
                 [c \in df.cols \cup {col} |-> IF c = col THEN value ELSE df.rows[i][c]]]]

(* ----------------------------- results -------------------------------- *)

NoResult == [status |-> "none", df |-> EmptyDataFrame, token |-> None, exc |-> None]

Returned(df, token) == [status |-> "returned", df |-> df, token |-> token, exc |-> None]

Raised(e) == [status |-> "raised", df |-> EmptyDataFrame, token |-> None, exc |-> e]

NoArgs ==
    [region_code |-> None, video_category_id |-> None, max_results |-> default_max_results,
     verbose |-> FALSE, video_id |-> None]

(* ---------------------------- responses ------------------------------- *)

\* The i-th item of a response: every scalar field holds a value of its own.
ItemOf(i, shape) ==
    [f \in shape.fields |->
        IF f = "replies.comments" THEN PyList(shape.replies) ELSE Scalar(<<ToString(i), f>>)]

ItemsOf(shapes) == [i \in DOMAIN shapes |-> ItemOf(i, shapes[i])]

SeqsUpTo(S, n) == UNION {[1..k -> S] : k \in 0..n}

Plain(fields) == [fields |-> fields, replies |-> 0]

CategoryFields ==
    {"kind", "etag", "id", "snippet.channelId", "snippet.title", "snippet.assignable"}

CategoryShapes ==
    {Plain(CategoryFields \ m) : m \in {{}, {"kind"}, {"etag"}, {"snippet.channelId"}}}

VideoFields ==
    {"kind", "etag", "id", "snippet.channelId", "snippet.publishedAt", "snippet.channelTitle",
     "snippet.title", "snippet.localized.title", "snippet.localized.description",
     "contentDetails.duration"}

StatisticsFieldSets ==
    {{}, {"statistics.viewCount"}, {"statistics.viewCount", "statistics.likeCount"},
     {"statistics.viewCount", "statistics.dislikeCount"}}

VideoShapes ==
    {Plain(VideoFields \cup s) : s \in StatisticsFieldSets}
      \cup {Plain(VideoFields \ m) : m \in {{"etag"}, {"contentDetails.duration"}}}

CommentFields ==
    {"kind", "etag", "id", "snippet.videoId", "snippet.topLevelComment.snippet.likeCount",
     "snippet.topLevelComment.snippet.textDisplay"}

CommentShapes ==
    {Plain(CommentFields \ m) :
        m \in {{}, {"id"}, {"snippet.topLevelComment.snippet.likeCount"},
               {"snippet.topLevelComment.snippet.textDisplay"}}}
      \cup {[fields |-> CommentFields \cup {"replies.comments"}, replies |-> n] :
              n \in 0..MaxReplies}

\* A response is a mapping; "items" and "nextPageToken" are the keys the code reads.
ResponsesOf(shapeSet) ==
    LET itemLists == {ItemsOf(s) : s \in SeqsUpTo(shapeSet, MaxItems)}
    IN  {[items |-> its] : its \in itemLists}
          \cup {[items |-> its, nextPageToken |-> t] : its \in itemLists, t \in PageTokens}
          \cup {[kind |-> "youtube#listResponse"]}
          \cup {[kind |-> "youtube#listResponse", nextPageToken |-> t] : t \in PageTokens}

(* ----------------------- get_video_categories -------------------------- *)

\* Lines 28-39: the statements after request.execute().
get_video_categories_reshape(resp, region_code) ==
    IF "items" \notin DOMAIN resp THEN Raised(KeyError)
    ELSE LET df == json_normalize(resp["items"])
             dropped == {"kind", "etag", "snippet.channelId"}
             mapper == [c \in {"snippet.title", "snippet.assignable"} |->
                          IF c = "snippet.title" THEN "category_title" ELSE "assignable"]
         IN  IF ~CanDrop(df, dropped) THEN Raised(KeyError)
             ELSE Returned(assign(rename(drop(df, dropped), mapper),
                                  "region_code", Scalar(<<region_code>>)), None)

\* The function with its body in a try block that turns any exception into an
\* empty table.
get_video_categories_except_empty(e) == Returned(EmptyDataFrame, None)

\* The function has no try statement: an exception raised in it leaves it.
get_video_categories_except(e) == Raised(e)

(* ---------------------- get_most_popular_videos ----------------------- *)

\* "statistics" in col, for the column names a video response can flatten to.
ContainsStatistics(col) ==
    col \in {"statistics.viewCount", "statistics.likeCount", "statistics.favoriteCount",
             "statistics.commentCount", "statistics.dislikeCount"}

\* The statistics columns taken from a fixed list instead of by their name.
statistics_columns_fixed(df) ==
    df.cols \cap {"statistics.viewCount", "statistics.likeCount", "statistics.favoriteCount",
                  "statistics.commentCount"}

\* Line 81: [col for col in df.columns if "statistics" in col]
statistics_columns(df) == {col \in df.cols : ContainsStatistics(col)}

fixed_selected_columns ==
    {"id", "snippet.publishedAt", "snippet.channelTitle", "snippet.localized.title",
     "snippet.localized.description", "contentDetails.duration"}

video_rename_mapper ==
    [c \in {"snippet.publishedAt", "snippet.channelTitle", "snippet.localized.title",
            "snippet.localized.description", "contentDetails.duration",
            "statistics.viewCount", "statistics.likeCount", "statistics.favoriteCount",
            "statistics.commentCount"} |->
        CASE c = "snippet.publishedAt" -> "published_at"
          [] c = "snippet.channelTitle" -> "channel_title"
          [] c = "snippet.localized.title" -> "title"
          [] c = "snippet.localized.description" -> "description"
          [] c = "contentDetails.duration" -> "duration"
          [] c = "statistics.viewCount" -> "view_count"
          [] c = "statistics.likeCount" -> "like_count"
          [] c = "statistics.favoriteCount" -> "favorite_count"
          [] c = "statistics.commentCount" -> "comment_count"]

\* Lines 72-103: the statements of the try block after request.execute().
get_most_popular_videos_reshape(resp, region_code, video_category_id) ==
    IF "items" \notin DOMAIN resp THEN Raised(KeyError)
    ELSE LET df0 == json_normalize(resp["items"])
             dropped == {"etag", "kind", "snippet.channelId"}
         IN  IF ~CanDrop(df0, dropped) THEN Raised(KeyError)
             ELSE LET df1 == drop(df0, dropped)
                      selected_columns == fixed_selected_columns \cup statistics_columns(df1)
                  IN  IF ~CanSelect(df1, selected_columns) THEN Raised(KeyError)
                      ELSE Returned(
                             assign(assign(rename(select(df1, selected_columns),
                                                  video_rename_mapper),
                                           "region_code", Scalar(<<region_code>>)),
                                    "video_category_id", Scalar(<<video_category_id>>)),
                             None)

\* Lines 105-110 with except HttpError in place of except Exception.
get_most_popular_videos_except_http(e) ==
    IF e = HttpError THEN Returned(EmptyDataFrame, None) ELSE Raised(e)

\* Lines 105-110: except Exception, then return df.
get_most_popular_videos_except(e) == Returned(EmptyDataFrame, None)

\* Lines 106-107: the message printed when verbose.
get_most_popular_videos_print(e, a) ==
    IF a.verbose
    THEN <<[region_code |-> a.region_code, video_category_id |-> a.video_category_id,
            error |-> e]>>
    ELSE << >>

(* ----------------------- get_top_level_comments ----------------------- *)

comment_rename_mapper ==
    [c \in {"id", "snippet.topLevelComment.snippet.likeCount",
            "snippet.topLevelComment.snippet.textDisplay"} |->
        CASE c = "id" -> "comment_id"
          [] c = "snippet.topLevelComment.snippet.likeCount" -> "like_count"
          [] c = "snippet.topLevelComment.snippet.textDisplay" -> "comment_text"]

\* lambda y: len(y) if type(y) == list else 0
number_of_replies(y) == IF y.isList THEN Len(y.v) ELSE 0

\* .assign(number_replies=lambda x: x['replies.comments'].apply(...))
assign_number_replies(df) ==
    [cols |-> df.cols \cup {"number_replies"},
     rows |-> [i \in DOMAIN df.rows |->
                 [c \in df.cols \cup {"number_replies"} |->
                    IF c = "number_replies"
                    THEN Scalar(<<ToString(number_of_replies(df.rows[i]["replies.comments"]))>>)
                    ELSE df.rows[i][c]]]]

RECURSIVE InsertDescending(_, _)
InsertDescending(rows, r) ==
    IF rows = << >> THEN <<r>>
    ELSE IF number_of_replies(Head(rows)["replies.comments"])
              >= number_of_replies(r["replies.comments"])
         THEN <<Head(rows)>> \o InsertDescending(Tail(rows), r)
         ELSE <<r>> \o rows

RECURSIVE SortDescending(_)
SortDescending(rows) ==
    IF rows = << >> THEN << >>
    ELSE InsertDescending(SortDescending(SubSeq(rows, 1, Len(rows) - 1)), rows[Len(rows)])

\* .sort_values('number_replies', ascending=False)
sort_values_number_replies(df) == [cols |-> df.cols, rows |-> SortDescending(df.rows)]

\* Lines 147-150 with the value of the expression statement bound to df_comments.
df_comments_rebound(df) ==
    IF "replies.comments" \in df.cols
    THEN sort_values_number_replies(assign_number_replies(df))
    ELSE df

\* Lines 147-150: the value of the expression is computed and not bound to a name,
\* so df_comments is what it was.
df_comments_after_sort(df) ==
    IF "replies.comments" \in df.cols
    THEN LET unused == sort_values_number_replies(assign_number_replies(df)) IN df
    ELSE df

\* Lines 152-155 with the token read only when some item has replies.
next_page_token_if_replies(resp) ==
    IF /\ "nextPageToken" \in DOMAIN resp
       /\ \E i \in DOMAIN resp["items"] : "replies.comments" \in DOMAIN resp["items"][i]
    THEN resp["nextPageToken"] ELSE None

\* Lines 152-155.
next_page_token_of(resp) ==
    IF "nextPageToken" \in DOMAIN resp THEN resp["nextPageToken"] ELSE None

\* Lines 135-155: the statements of the try block after .execute().
get_top_level_comments_reshape(resp, video_id) ==
    IF "items" \notin DOMAIN resp THEN Raised(KeyError)
    ELSE LET df0 == rename(json_normalize(resp["items"]), comment_rename_mapper)
             selected_cols ==
                 {"comment_id", "like_count", "comment_text"}
                   \cup (IF "replies.comments" \in df0.cols THEN {"replies.comments"} ELSE {})
         IN  IF ~CanSelect(df0, selected_cols) THEN Raised(KeyError)
             ELSE Returned(
                    df_comments_after_sort(
                        assign(select(df0, selected_cols), "video_id", Scalar(<<video_id>>))),
                    next_page_token_of(resp))

\* Lines 156-165 with every exception caught.
get_top_level_comments_except_all(e) == Returned(EmptyDataFrame, None)

\* Lines 156-165 with no exception caught.
get_top_level_comments_except_none(e) == Raised(e)

\* Lines 156-165: except HttpError, then return; any other exception leaves the function.
get_top_level_comments_except(e) ==
    IF e = HttpError THEN Returned(EmptyDataFrame, None) ELSE Raised(e)

(* ------------------------------ client -------------------------------- *)

\* One entry per call of the client: the method, and the exception it raised or None.
ListCall(e) == [method |-> "list", raised |-> e]

ExecuteCall(e) == [method |-> "execute", raised |-> e]

\* The number of requests sent to the API during the current call.
Requests == Cardinality({i \in DOMAIN calls : calls[i].method = "execute"})

\* Where control goes after execute() returned resp, fetching the next page while
\* the response names one.
after_execute_following_pages(resp) ==
    IF "nextPageToken" \in DOMAIN resp THEN "execute" ELSE "reshape"

\* Where control goes after execute() returned resp: on to the next statement.
after_execute(resp) == "reshape"

(* ------------------------------ actions ------------------------------- *)

Init ==
    /\ pc = "idle"
    /\ fn = None
    /\ args = NoArgs
    /\ calls = << >>
    /\ response = << >>
    /\ result = NoResult
    /\ stdout = << >>

Enter(f, a) ==
    /\ pc = "idle"
    /\ pc' = "list"
    /\ fn' = f
    /\ args' = a
    /\ calls' = << >>
    /\ response' = << >>
    /\ result' = NoResult
    /\ stdout' = << >>

\* youtube.<resource>().list(...) returns the request.
ListReturns(f) ==
    /\ pc = "list" /\ fn = f
    /\ pc' = "execute"
    /\ calls' = Append(calls, ListCall(None))
    /\ UNCHANGED <<fn, args, response, result, stdout>>

\* youtube.<resource>().list(...) raises e; no request is sent.
ListRaises(f, e, res, out) ==
    /\ pc = "list" /\ fn = f
    /\ pc' = "done"
    /\ calls' = Append(calls, ListCall(e))
    /\ result' = res
    /\ stdout' = out
    /\ UNCHANGED <<fn, args, response>>

\* request.execute() returns resp.
ExecuteReturns(f, resp) ==
    /\ pc = "execute" /\ fn = f
    /\ pc' = after_execute(resp)
    /\ calls' = Append(calls, ExecuteCall(None))
    /\ response' = resp
    /\ UNCHANGED <<fn, args, result, stdout>>

\* request.execute() raises e.
ExecuteRaises(f, e, res, out) ==
    /\ pc = "execute" /\ fn = f
    /\ pc' = "done"
    /\ calls' = Append(calls, ExecuteCall(e))
    /\ result' = res
    /\ stdout' = out
    /\ UNCHANGED <<fn, args, response>>

Finish(f, res, out) ==
    /\ pc = "reshape" /\ fn = f
    /\ pc' = "done"
    /\ result' = res
    /\ stdout' = out
    /\ UNCHANGED <<fn, args, calls, response>>

\* get_video_categories(region_code, youtube)
Call_get_video_categories ==
    \E region_code \in RegionCodes :
        Enter("get_video_categories", [NoArgs EXCEPT !.region_code = region_code])

get_video_categories_list ==
    \/ ListReturns("get_video_categories")
    \/ \E e \in ClientExceptions :
          ListRaises("get_video_categories", e, get_video_categories_except(e), << >>)

get_video_categories_execute ==
    \/ \E resp \in ResponsesOf(CategoryShapes) : ExecuteReturns("get_video_categories", resp)
    \/ \E e \in ClientExceptions :
          ExecuteRaises("get_video_categories", e, get_video_categories_except(e), << >>)

get_video_categories_return ==
    LET body == get_video_categories_reshape(response, args.region_code)
    IN  Finish("get_video_categories",
               IF body.status = "raised" THEN get_video_categories_except(body.exc) ELSE body,
               << >>)

\* get_most_popular_videos(region_code, youtube, video_category_id, max_results, verbose)
Call_get_most_popular_videos ==
    \E region_code \in RegionCodes, video_category_id \in VideoCategoryIds,
       max_results \in MaxResultsValues, verbose \in BOOLEAN :
        Enter("get_most_popular_videos",
              [NoArgs EXCEPT !.region_code = region_code,
                             !.video_category_id = video_category_id,
                             !.max_results = max_results,
                             !.verbose = verbose])

get_most_popular_videos_list ==
    \/ ListReturns("get_most_popular_videos")
    \/ \E e \in ClientExceptions :
          ListRaises("get_most_popular_videos", e, get_most_popular_videos_except(e),
                     get_most_popular_videos_print(e, args))

get_most_popular_videos_execute ==
    \/ \E resp \in ResponsesOf(VideoShapes) : ExecuteReturns("get_most_popular_videos", resp)
    \/ \E e \in ClientExceptions :
          ExecuteRaises("get_most_popular_videos", e, get_most_popular_videos_except(e),
                        get_most_popular_videos_print(e, args))

get_most_popular_videos_return ==
    LET body == get_most_popular_videos_reshape(response, args.region_code,
                                                args.video_category_id)
    IN  IF body.status = "raised"
        THEN Finish("get_most_popular_videos", get_most_popular_videos_except(body.exc),
                    get_most_popular_videos_print(body.exc, args))
        ELSE Finish("get_most_popular_videos", body, << >>)

\* get_top_level_comments(video_id, youtube_client)
Call_get_top_level_comments ==
    \E video_id \in VideoIds :
        Enter("get_top_level_comments", [NoArgs EXCEPT !.video_id = video_id])

get_top_level_comments_list ==
    \/ ListReturns("get_top_level_comments")
    \/ \E e \in ClientExceptions :
          ListRaises("get_top_level_comments", e, get_top_level_comments_except(e), << >>)

get_top_level_comments_execute ==
    \/ \E resp \in ResponsesOf(CommentShapes) : ExecuteReturns("get_top_level_comments", resp)
    \/ \E e \in ClientExceptions :
          ExecuteRaises("get_top_level_comments", e, get_top_level_comments_except(e), << >>)

get_top_level_comments_return ==
    LET body == get_top_level_comments_reshape(response, args.video_id)
    IN  Finish("get_top_level_comments",
               IF body.status = "raised" THEN get_top_level_comments_except(body.exc) ELSE body,
               << >>)

\* The caller has the result (or the exception) and may call again.
Done ==
    /\ pc = "done"
    /\ pc' = "idle"
    /\ fn' = None
    /\ args' = NoArgs
    /\ calls' = << >>
    /\ response' = << >>
    /\ result' = NoResult
    /\ stdout' = << >>

Next ==
    \/ Call_get_video_categories
    \/ get_video_categories_list
    \/ get_video_categories_execute
    \/ get_video_categories_return
    \/ Call_get_most_popular_videos
    \/ get_most_popular_videos_list
    \/ get_most_popular_videos_execute
    \/ get_most_popular_videos_return
    \/ Call_get_top_level_comments
    \/ get_top_level_comments_list
    \/ get_top_level_comments_execute
    \/ get_top_level_comments_return
    \/ Done

Spec == Init /\ [][Next]_vars

(* ------------------------------ claims -------------------------------- *)

Finished(f) == pc = "done" /\ fn = f

\* Some call of the client raised during the current call.
ClientRaised == \E i \in DOMAIN calls : calls[i].raised # None

LastRaised == calls[Len(calls)].raised

\* execute() returned a response.
Responded == Len(calls) = 2 /\ calls[2].raised = None

\* No item of the response has the flattened key c (so json_normalize makes no
\* such column); true of an empty items list.
NoColumn(c) == \A i \in DOMAIN response["items"] : c \notin DOMAIN response["items"][i]

RawColumns == UNION {DOMAIN response["items"][i] : i \in DOMAIN response["items"]}

VideoReshapeFails ==
    \/ "items" \notin DOMAIN response
    \/ response["items"] = << >>
    \/ \E c \in {"etag", "kind", "snippet.channelId", "id", "snippet.publishedAt",
                 "snippet.channelTitle", "snippet.localized.title",
                 "snippet.localized.description", "contentDetails.duration"} : NoColumn(c)

\* C1: get_most_popular_videos never raises to its caller; whenever the client's
\* list(...) or execute() raises, or the reshaping fails (no items key, an empty
\* items list, a fixed or dropped column missing), it returns a table with zero rows.
C1_NeverRaises ==
    Finished("get_most_popular_videos") =>
        /\ result.status = "returned"
        /\ (ClientRaised \/ (Responded /\ VideoReshapeFails)) => Len(result.df.rows) = 0

C1_Witness ==
    /\ Finished("get_most_popular_videos")
    /\ Responded
    /\ "items" \in DOMAIN response
    /\ Len(response["items"]) = 2
    /\ NoColumn("contentDetails.duration")
    /\ args.verbose
    /\ result.status = "returned"
    /\ result.df.rows = << >>

\* C2: when the client raises HttpError during the comment-thread request,
\* get_top_level_comments does not raise and returns (a table with zero rows and
\* zero columns, None).
C2_HttpErrorSuppressed ==
    (Finished("get_top_level_comments") /\ ClientRaised /\ LastRaised = HttpError) =>
        /\ result.status = "returned"
        /\ result.df.cols = {}
        /\ result.df.rows = << >>
        /\ result.token = None

C2_Witness ==
    /\ Finished("get_top_level_comments")
    /\ Len(calls) = 2
    /\ calls[2].raised = HttpError
    /\ result.status = "returned"

CommentReshapeFails ==
    \/ "items" \notin DOMAIN response
    \/ response["items"] = << >>
    \/ \E c \in {"id", "snippet.topLevelComment.snippet.likeCount",
                 "snippet.topLevelComment.snippet.textDisplay"} : NoColumn(c)

\* C3: in get_top_level_comments every failure that is not an HttpError leaves
\* the function as an exception and no (table, token) pair is returned: an
\* exception of another class raised by the client, a response without 'items',
\* an empty items list, items without the id / likeCount / textDisplay fields.
C3_OtherFailuresPropagate ==
    Finished("get_top_level_comments") =>
        /\ (ClientRaised /\ LastRaised # HttpError) =>
              (result.status = "raised" /\ result.exc = LastRaised)
        /\ (Responded /\ CommentReshapeFails) =>
              (result.status = "raised" /\ result.exc = KeyError)

C3_Witness ==
    /\ Finished("get_top_level_comments")
    /\ Responded
    /\ "items" \in DOMAIN response
    /\ response["items"] = << >>
    /\ result.status = "raised"

CategoryReshapeFails ==
    \/ "items" \notin DOMAIN response
    \/ \E c \in {"kind", "etag", "snippet.channelId"} : NoColumn(c)

\* C4: get_video_categories suppresses no failure: an exception raised by the
\* client, or by reshaping a response without 'items' or without the kind / etag /
\* snippet.channelId fields, reaches the caller and no table is returned.
C4_CategoriesPropagate ==
    Finished("get_video_categories") =>
        /\ ClientRaised => (result.status = "raised" /\ result.exc = LastRaised)
        /\ (Responded /\ CategoryReshapeFails) =>
              (result.status = "raised" /\ result.exc = KeyError)

C4_Witness ==
    /\ Finished("get_video_categories")
    /\ Responded
    /\ "items" \in DOMAIN response
    /\ Len(response["items"]) = 2
    /\ NoColumn("etag")
    /\ result.status = "raised"

WellFormedCategoryResponse ==
    /\ "items" \in DOMAIN response
    /\ \A i \in DOMAIN response["items"] : DOMAIN response["items"][i] = CategoryFields

\* C5: for any well-formed category response with N items, N >= 0,
\* get_video_categories returns a table of exactly N rows, one per item, every
\* row's region_code the input region_code, and no column named kind, etag or
\* snippet.channelId.
C5_CategoryRows ==
    (Finished("get_video_categories") /\ Responded /\ WellFormedCategoryResponse) =>
        /\ result.status = "returned"
        /\ Len(result.df.rows) = Len(response["items"])
        /\ \A i \in DOMAIN result.df.rows :
              /\ result.df.rows[i]["region_code"] = Scalar(<<args.region_code>>)
              /\ result.df.rows[i]["id"] = response["items"][i]["id"]
        /\ result.df.cols \cap {"kind", "etag", "snippet.channelId"} = {}

WellFormedVideoResponse ==
    /\ "items" \in DOMAIN response
    /\ \A i \in DOMAIN response["items"] : VideoFields \subseteq DOMAIN response["items"][i]

FixedOutputColumns ==
    {"id", "published_at", "channel_title", "title", "description", "duration"}

\* The output name of a raw statistics column: the four renamed ones, else the raw name.
StatisticsOutputName(c) ==
    CASE c = "statistics.viewCount" -> "view_count"
      [] c = "statistics.likeCount" -> "like_count"
      [] c = "statistics.favoriteCount" -> "favorite_count"
      [] c = "statistics.commentCount" -> "comment_count"
      [] OTHER -> c

StatisticsOutputColumns ==
    {StatisticsOutputName(c) : c \in {r \in RawColumns : ContainsStatistics(r)}}

\* C6 as stated: for any well-formed video response the columns of the returned
\* table are exactly the fixed set plus one column per raw column whose name
\* contains 'statistics', and nothing else.  Stated here for the responses that
\* have at least one item, the reading kindest to the claim.
C6_ColumnsExactlyFixedPlusStatistics ==
    (/\ Finished("get_most_popular_videos")
     /\ Responded
     /\ WellFormedVideoResponse
     /\ response["items"] # << >>) =>
        result.df.cols = FixedOutputColumns \cup StatisticsOutputColumns

\* C6 amended: for a well-formed video response with at least one item the columns
\* are exactly the fixed set, one column per raw column whose name contains
\* 'statistics' (renamed when the rename map names it, else under its raw name),
\* and the two stamped columns region_code and video_category_id; for a response
\* with no items the table has no columns.
C6_ColumnsWithStamps ==
    (Finished("get_most_popular_videos") /\ Responded /\ WellFormedVideoResponse) =>
        IF response["items"] = << >>
        THEN result.df.cols = {}
        ELSE result.df.cols =
                FixedOutputColumns \cup StatisticsOutputColumns
                  \cup {"region_code", "video_category_id"}

C6_Witness ==
    /\ Finished("get_most_popular_videos")
    /\ Responded
    /\ WellFormedVideoResponse
    /\ Len(response["items"]) = 2
    /\ "statistics.dislikeCount" \in RawColumns
    /\ "statistics.likeCount" \notin RawColumns
    /\ "like_count" \notin result.df.cols
    /\ "statistics.dislikeCount" \in result.df.cols

\* A call of get_top_level_comments in which nothing raised.
CommentsSucceeded ==
    /\ Finished("get_top_level_comments")
    /\ Responded
    /\ result.status = "returned"

\* C7: on every successful call of get_top_level_comments the second returned
\* value is the response's nextPageToken when the response has that key and None
\* when it has not, whatever the items and whether or not replies are present.
C7_TokenIsResponseToken ==
    CommentsSucceeded =>
        /\ "nextPageToken" \in DOMAIN response => result.token = response["nextPageToken"]
        /\ "nextPageToken" \notin DOMAIN response => result.token = None

C7_Witness ==
    /\ CommentsSucceeded
    /\ "nextPageToken" \in DOMAIN response
    /\ NoColumn("replies.comments")
    /\ result.token \in PageTokens

\* C8: the table returned by get_top_level_comments has a number_replies column
\* exactly when the response has the replies column, and then every row's
\* number_replies is the length of the row's replies list, 0 when it is no list.
C8_NumberRepliesReturned ==
    CommentsSucceeded =>
        /\ ("number_replies" \in result.df.cols) <=> ~NoColumn("replies.comments")
        /\ "number_replies" \in result.df.cols =>
              \A i \in DOMAIN result.df.rows :
                  result.df.rows[i]["number_replies"] =
                      Scalar(<<ToString(
                          IF "replies.comments" \in DOMAIN response["items"][i]
                          THEN Len(response["items"][i]["replies.comments"].v)
                          ELSE 0)>>)

\* C9: the table returned by get_top_level_comments is the pre-sort one: its rows
\* are in the order of the response's items, also when the replies column is
\* present and the reply counts are not in descending order.
C9_RowsInResponseOrder ==
    CommentsSucceeded =>
        /\ Len(result.df.rows) = Len(response["items"])
        /\ \A i \in DOMAIN result.df.rows :
              result.df.rows[i]["comment_id"] =
                  (IF "id" \in DOMAIN response["items"][i]
                   THEN response["items"][i]["id"] ELSE NaN)

C9_Witness ==
    /\ CommentsSucceeded
    /\ Len(response["items"]) = 2
    /\ "replies.comments" \notin DOMAIN response["items"][1]
    /\ "replies.comments" \in DOMAIN response["items"][2]
    /\ Len(response["items"][2]["replies.comments"].v) = 3
    /\ result.df.rows[1]["comment_id"] = response["items"][1]["id"]

\* C10 as stated: every call of the three functions issues exactly one request
\* (one execute()) on every path, success or failure.
C10_ExactlyOneRequest == pc = "done" => Requests = 1

\* C10 amended: every call of the three functions issues at most one request,
\* never a retry and never a follow-up for a nextPageToken: exactly one execute()
\* when building the request (list(...)) returned, none when list(...) raised.
C10_AtMostOneRequest ==
    /\ Requests <= 1
    /\ pc \in {"reshape", "done"} =>
          (Requests = 1 <=> (calls # << >> /\ calls[1].raised = None))
    /\ pc \in {"reshape", "done"} => Len(calls) = 1 + Requests

C10_Witness ==
    /\ CommentsSucceeded
    /\ "nextPageToken" \in DOMAIN response
    /\ result.token = response["nextPageToken"]
    /\ Requests = 1

====
